---- MODULE Spec2Model ----
(***************************************************************************)
(* locksmithd: the reboot-coordination daemon of locksmithctl/daemon.go.   *)
(* One process (runDaemon, which runs the Reboot Executor inline), the     *)
(* Stale-Lock Reaper goroutine (unlockHeldLocks), the signal goroutine,    *)
(* the update-engine listener, and the collaborators they talk to.         *)
(* Durations and times of day are counted in seconds.                      *)
(***************************************************************************)
EXTENDS Integers, Sequences, FiniteSets, TLC

\* ------------------------------------------------------------- constants
initialInterval == 5
maxInterval == 300
loginsRebootDelay == 300
\* time.Hour * 24 * 7, the post-reboot sleep of rebootAndSleep
rebootWait == 604800
\* one day, the period of timeutil.Periodic
Day == 86400

StrategyReboot == "reboot"
StrategyEtcdLock == "etcd-lock"
StrategyBestEffort == "best-effort"
StrategyOff == "off"

etcdServices == <<"etcd.service", "etcd2.service">>

UpdateStatusUpdatedNeedReboot == "UPDATE_STATUS_UPDATED_NEED_REBOOT"

\* --------------------------------------------------------------- bounds
\* consecutive transient acquire() failures the lock service may produce
MaxFail == 7
\* transient release() failures the lock service may produce for the reaper
MaxReleaseFail == 1
\* terminal lines broadcast() can reach
MaxLines == 1
\* calls of useLock() in the gate specification
MaxGateCalls == 2
\* width, in bits, of the signed duration arithmetic of the model
DurBits == 16

\* ------------------------------------------------------- input domains
\* values of $REBOOT_STRATEGY ("" is unset, "bogus" is an unknown strategy)
EnvStrategies ==
    {"", StrategyReboot, StrategyEtcdLock, StrategyBestEffort, StrategyOff, "bogus"}
\* values of $REBOOT_WINDOW_START and $REBOOT_WINDOW_LENGTH
EnvStarts == {"", "02:00", "23:30", "junk"}
EnvLengths == {"", "1h", "junk"}
\* readings of time.Now() as a time of day: 00:15, 01:00, 02:59:59
NowTimes == {900, 3600, 10799}
\* CurrentOperation values of the update engine
Statuses == {"UPDATE_STATUS_IDLE", "UPDATE_STATUS_DOWNLOADING",
             UpdateStatusUpdatedNeedReboot}
\* ActiveState of a unit as GetUnitProperty reports it; "properr" is a
\* GetUnitProperty call that returned an error
UnitStates == {"active", "inactive", "failed", "properr"}
\* outcomes of the liveness probe: dbus.New() failing, or one state per unit
ProbeOutcomes ==
    {[err |-> TRUE, units |-> <<"inactive", "inactive">>]}
    \cup {[err |-> FALSE, units |-> <<a, b>>] : a \in UnitStates, b \in UnitStates}

\* ------------------------------------------------------- pure functions
Pow2(n) == 2 ^ n

\* a value wrapped to the signed DurBits-bit range, as Go wraps a Duration
WrapDur(x) ==
    LET m == Pow2(DurBits)
        r == x % m
    IN  IF r >= m \div 2 THEN r - m ELSE r

\* every value of a Duration
Durations == (0 - Pow2(DurBits - 1)) .. (Pow2(DurBits - 1) - 1)

expBackoff_NoCeiling(interval) == WrapDur(interval * 2)

expBackoff(interval) ==
    LET doubled == WrapDur(interval * 2)
    IN  IF doubled > maxInterval THEN maxInterval ELSE doubled

\* the loop of etcdActive over etcdServices from index i on, with the
\* running (active, name) pair: a GetUnitProperty error and "inactive" skip
\* the unit, any other state sets active and name (the break leaves only the
\* switch, so the loop goes on)
RECURSIVE etcdScan(_, _, _)
etcdScan(units, i, acc) ==
    IF i > Len(etcdServices) THEN acc
    ELSE IF units[i] \in {"properr", "inactive"}
         THEN etcdScan(units, i + 1, acc)
         ELSE etcdScan(units, i + 1, [active |-> TRUE, name |-> etcdServices[i]])

etcdActive(p) ==
    IF p.err
    THEN [active |-> FALSE, name |-> "", err |-> TRUE]
    ELSE LET r == etcdScan(p.units, 1, [active |-> FALSE, name |-> ""])
         IN  [active |-> r.active, name |-> r.name, err |-> FALSE]

useLock_RebootLocks(strategy, p) ==
    IF strategy = StrategyBestEffort
    THEN IF etcdActive(p).err
         THEN [use |-> FALSE, err |-> "probe"]
         ELSE [use |-> etcdActive(p).active, err |-> "nil"]
    ELSE IF strategy \in {StrategyEtcdLock, StrategyReboot}
    THEN [use |-> TRUE, err |-> "nil"]
    ELSE [use |-> FALSE, err |-> "unknown"]

useLock(strategy, p) ==
    IF strategy = StrategyBestEffort
    THEN IF etcdActive(p).err
         THEN [use |-> FALSE, err |-> "probe"]
         ELSE [use |-> etcdActive(p).active, err |-> "nil"]
    ELSE IF strategy = StrategyEtcdLock
    THEN [use |-> TRUE, err |-> "nil"]
    ELSE IF strategy = StrategyReboot
    THEN [use |-> FALSE, err |-> "nil"]
    ELSE [use |-> FALSE, err |-> "unknown"]

\* timeutil.ParsePeriodic: the start as a time of day and the length as a
\* duration; anything it cannot parse is an error
ParseStart(s) == IF s = "02:00" THEN 7200 ELSE IF s = "23:30" THEN 84600 ELSE -1
ParseLength(l) == IF l = "1h" THEN 3600 ELSE -1
ParsePeriodic(s, l) ==
    IF ParseStart(s) < 0 \/ ParseLength(l) < 0
    THEN [err |-> TRUE, set |-> FALSE, start |-> 0, length |-> 0]
    ELSE [err |-> FALSE, set |-> TRUE, start |-> ParseStart(s), length |-> ParseLength(l)]

NoPeriod == [err |-> FALSE, set |-> FALSE, start |-> 0, length |-> 0]

\* whether time of day t lies in [start, start+length) of a daily occurrence
InWindow(p, t) == ((t - p.start) % Day) < p.length

\* Periodic.DurationToStart: zero inside the window, else the time to the
\* next start
DurationToStart(p, t) ==
    IF InWindow(p, t) THEN 0 ELSE (p.start - t) % Day

\* ---------------------------------------------------------------- state
VARIABLES
    strategy,      \* the strategy of runDaemon ("" before it is read)
    period,        \* the parsed reboot window of runDaemon
    mpc,           \* where runDaemon (and the executor it calls) stands
    proc,          \* "running", "exit0", "exit1" or "rebooted"
    fault,         \* the configuration or collaborator failure runDaemon met
    handler,       \* signal.Notify has been called
    shutdown,      \* a termination signal sits in the shutdown channel
    stop,          \* the stop channel is closed
    wg,            \* the WaitGroup counter
    ueStatus,      \* the update engine's current operation
    ch,            \* the status channel (capacity 1)
    result,        \* CurrentOperation of the one GetStatus call
    rcvd,          \* the status received from ch
    clock,         \* time of day
    sleeptime,     \* the window wait computed by runDaemon
    probe,         \* the probe outcome of the last gate call
    gate,          \* the result of the last useLock call
    seen,          \* <<probe outcome, result>> of every gate call
    gateCalls,     \* calls of the gate specification
    lockOwner,     \* the lock of this machine id: "free", "stale", "proc"
    eInterval,     \* interval of lockAndReboot
    acquireCalls,  \* lck.Lock() calls of the executor
    acquireFails,  \* those that failed with a non-sentinel error
    eSleeps,       \* backoff sleeps of lockAndReboot
    eReleaseCalls, \* lck.Unlock() calls of the executor
    caller,        \* who called rebootAndSleep
    lines,         \* the count broadcast returned
    broadcasts,    \* broadcasts made
    delays,        \* loginsRebootDelay sleeps taken
    reboots,       \* reboot requests sent to the session manager
    rebootAt,      \* time of day of the last reboot request
    rpc,           \* where unlockHeldLocks stands
    rInterval,     \* interval of unlockHeldLocks
    rTimerLive,    \* the reaper's wait began with stop open
    rSeen,         \* what the reaper's probe reported in this iteration
    rReleaseCalls, \* lck.Unlock() calls of the reaper
    rReleaseFails, \* those that failed with a non-sentinel error
    rLast,         \* outcome of the reaper's last release()
    bInterval,     \* the argument of a call of expBackoff on its own
    bNext          \* what that call returned (empty before the call)

cfgVars == <<strategy, period>>
sigVars == <<handler, shutdown>>
ueVars == <<ueStatus, ch>>
obsVars == <<result, rcvd>>
timeVars == <<clock, sleeptime>>
gateVars == <<probe, seen, gateCalls>>
backoffVars == <<bInterval, bNext>>
fnVars == <<gateVars, backoffVars>>
acqVars == <<eInterval, acquireCalls, acquireFails, eSleeps>>
rasVars == <<caller, lines, broadcasts, delays, reboots, rebootAt>>
execVars == <<acqVars, eReleaseCalls, rasVars>>
reaperVars == <<rpc, rInterval, rTimerLive, rSeen, rReleaseCalls,
                rReleaseFails, rLast>>
vars == <<cfgVars, mpc, proc, fault, sigVars, stop, wg, ueVars, obsVars,
          timeVars, fnVars, gate, lockOwner, execVars, reaperVars>>

Running == proc = "running"

\* everything but the strategy, the lock and the update engine's status
InitRest ==
    /\ period = NoPeriod
    /\ mpc = "strategy"
    /\ proc = "running"
    /\ fault = "none"
    /\ handler = FALSE
    /\ shutdown = FALSE
    /\ stop = FALSE
    /\ wg = 0
    /\ ch = <<>>
    /\ result = "none"
    /\ rcvd = "none"
    /\ clock = 0
    /\ sleeptime = 0
    /\ probe = [err |-> FALSE, units |-> <<"inactive", "inactive">>]
    /\ gate = [use |-> FALSE, err |-> "none"]
    /\ seen = {}
    /\ gateCalls = 0
    /\ eInterval = 0
    /\ acquireCalls = 0
    /\ acquireFails = 0
    /\ eSleeps = 0
    /\ eReleaseCalls = 0
    /\ caller = "none"
    /\ lines = 0
    /\ broadcasts = 0
    /\ delays = 0
    /\ reboots = 0
    /\ rebootAt = 0
    /\ rpc = "off"
    /\ rInterval = 0
    /\ rTimerLive = FALSE
    /\ rSeen = "none"
    /\ rReleaseCalls = 0
    /\ rReleaseFails = 0
    /\ rLast = "none"

\* no call of expBackoff on its own is under way
BackoffIdle == bInterval = initialInterval /\ bNext = <<>>

\* the daemon starts; a previous instance may have left the lock held
Init ==
    /\ strategy = ""
    /\ ueStatus \in Statuses
    /\ lockOwner \in {"free", "stale"}
    /\ BackoffIdle
    /\ InitRest

\* ---------------------------------------------------------- lock service
\* lck.Lock() on the lock of this machine id: the result and the owner it
\* leaves.  A non-sentinel error may or may not have reached the store.
AcquireOutcomes(owner) ==
    IF owner = "free"
    THEN {[res |-> "ok", owner |-> "proc"],
          [res |-> "err", owner |-> "free"],
          [res |-> "err", owner |-> "proc"]}
    ELSE {[res |-> "exist", owner |-> owner],
          [res |-> "err", owner |-> owner]}

\* lck.Unlock() likewise
ReleaseOutcomes(owner) ==
    IF owner = "free"
    THEN {[res |-> "notexist", owner |-> "free"],
          [res |-> "err", owner |-> "free"]}
    ELSE {[res |-> "ok", owner |-> "free"],
          [res |-> "err", owner |-> owner],
          [res |-> "err", owner |-> "free"]}

unlockIfHeld_NotExistFails(res) == res = "ok"

\* unlockIfHeld: nil for ErrNotExist and for success, else the error
unlockIfHeld(res) == res \in {"notexist", "ok"}

\* ------------------------------------------------------------- runDaemon
Exit(code) == proc' = code

CheckStrategy_OffGoesOn ==
    /\ Running /\ mpc = "strategy"
    /\ \E e \in EnvStrategies :
         strategy' = IF e = "" THEN StrategyBestEffort ELSE e
    /\ mpc' = "window"
    /\ UNCHANGED <<period, proc, fault, sigVars, stop, wg, ueVars, obsVars,
                   timeVars, fnVars, gate, lockOwner, execVars, reaperVars>>

\* $REBOOT_STRATEGY, best-effort when unset; off ends the daemon
CheckStrategy ==
    /\ Running /\ mpc = "strategy"
    /\ \E e \in EnvStrategies :
         /\ strategy' = IF e = "" THEN StrategyBestEffort ELSE e
         /\ IF strategy' = StrategyOff
            THEN Exit("exit0") /\ UNCHANGED mpc
            ELSE mpc' = "window" /\ UNCHANGED proc
    /\ UNCHANGED <<period, fault, sigVars, stop, wg, ueVars, obsVars, timeVars,
                   fnVars, gate, lockOwner, execVars, reaperVars>>

\* $REBOOT_WINDOW_START and $REBOOT_WINDOW_LENGTH: both or neither, and
\* parsable
CheckWindow ==
    /\ Running /\ mpc = "window"
    /\ \E startw \in EnvStarts, lengthw \in EnvLengths :
         IF (startw = "") # (lengthw = "")
         THEN fault' = "window-partial" /\ Exit("exit1") /\ UNCHANGED <<mpc, period>>
         ELSE IF startw # "" /\ lengthw # ""
         THEN IF ParsePeriodic(startw, lengthw).err
              THEN /\ fault' = "window-parse"
                   /\ Exit("exit1")
                   /\ UNCHANGED <<mpc, period>>
              ELSE /\ period' = ParsePeriodic(startw, lengthw)
                   /\ mpc' = "signals"
                   /\ UNCHANGED <<proc, fault>>
         ELSE mpc' = "signals" /\ UNCHANGED <<proc, fault, period>>
    /\ UNCHANGED <<strategy, sigVars, stop, wg, ueVars, obsVars, timeVars,
                   fnVars, gate, lockOwner, execVars, reaperVars>>

InstallHandler ==
    /\ Running /\ mpc = "signals"
    /\ handler' = TRUE
    /\ mpc' = "ue"
    /\ UNCHANGED <<cfgVars, proc, fault, shutdown, stop, wg, ueVars, obsVars,
                   timeVars, fnVars, gate, lockOwner, execVars, reaperVars>>

\* updateengine.New(), then login1.New(): either may fail
Connect(at, next) ==
    /\ Running /\ mpc = at
    /\ \E ok \in BOOLEAN :
         IF ok
         THEN mpc' = next /\ UNCHANGED <<proc, fault>>
         ELSE fault' = at /\ Exit("exit1") /\ UNCHANGED mpc
    /\ UNCHANGED <<cfgVars, sigVars, stop, wg, ueVars, obsVars, timeVars,
                   fnVars, gate, lockOwner, execVars, reaperVars>>

ConnectUpdateEngine == Connect("ue", "lgn")

ConnectLogin == Connect("lgn", "reaper")

StartReaper_Always ==
    /\ Running /\ mpc = "reaper"
    /\ wg' = wg + 1
    /\ rpc' = "select"
    /\ rInterval' = initialInterval
    /\ rTimerLive' = ~stop
    /\ mpc' = "listen"
    /\ UNCHANGED <<cfgVars, proc, fault, sigVars, stop, ueVars, obsVars,
                   timeVars, fnVars, gate, lockOwner, execVars, rSeen,
                   rReleaseCalls, rReleaseFails, rLast>>

\* wg.Add(1); go unlockHeldLocks(stop, &wg), unless the strategy is reboot
StartReaper ==
    /\ Running /\ mpc = "reaper"
    /\ IF strategy # StrategyReboot
       THEN /\ wg' = wg + 1
            /\ rpc' = "select"
            /\ rInterval' = initialInterval
            /\ rTimerLive' = ~stop
       ELSE UNCHANGED <<wg, rpc, rInterval, rTimerLive>>
    /\ mpc' = "listen"
    /\ UNCHANGED <<cfgVars, proc, fault, sigVars, stop, ueVars, obsVars,
                   timeVars, fnVars, gate, lockOwner, execVars, rSeen,
                   rReleaseCalls, rReleaseFails, rLast>>

\* go ue.RebootNeededSignal(ch, stop)
StartListener ==
    /\ Running /\ mpc = "listen"
    /\ mpc' = "status"
    /\ UNCHANGED <<cfgVars, proc, fault, sigVars, stop, wg, ueVars, obsVars,
                   timeVars, fnVars, gate, lockOwner, execVars, reaperVars>>

\* ue.GetStatus() and the test of result.CurrentOperation
GetStatus ==
    /\ Running /\ mpc = "status"
    /\ \E ok \in BOOLEAN :
         IF ok
         THEN /\ result' = ueStatus
              /\ mpc' = IF ueStatus # UpdateStatusUpdatedNeedReboot
                        THEN "wait" ELSE "stop"
              /\ UNCHANGED <<proc, fault>>
         ELSE fault' = "status" /\ Exit("exit1") /\ UNCHANGED <<mpc, result>>
    /\ UNCHANGED <<cfgVars, sigVars, stop, wg, ueVars, rcvd, timeVars,
                   fnVars, gate, lockOwner, execVars, reaperVars>>

\* <-ch: the code drops the value received; rcvd keeps it
WaitStatus ==
    /\ Running /\ mpc = "wait"
    /\ ch # <<>>
    /\ rcvd' = Head(ch)
    /\ ch' = Tail(ch)
    /\ mpc' = "stop"
    /\ UNCHANGED <<cfgVars, proc, fault, sigVars, stop, wg, ueStatus, result,
                   timeVars, fnVars, gate, lockOwner, execVars, reaperVars>>

CloseStop ==
    /\ Running /\ mpc = "stop"
    /\ stop' = TRUE
    /\ mpc' = "join"
    /\ UNCHANGED <<cfgVars, proc, fault, sigVars, wg, ueVars, obsVars,
                   timeVars, fnVars, gate, lockOwner, execVars, reaperVars>>

WgWait_NoJoin ==
    /\ Running /\ mpc = "join"
    /\ mpc' = "period"
    /\ UNCHANGED <<cfgVars, proc, fault, sigVars, stop, wg, ueVars, obsVars,
                   timeVars, fnVars, gate, lockOwner, execVars, reaperVars>>

\* wg.Wait()
WgWait ==
    /\ Running /\ mpc = "join"
    /\ wg = 0
    /\ mpc' = "period"
    /\ UNCHANGED <<cfgVars, proc, fault, sigVars, stop, wg, ueVars, obsVars,
                   timeVars, fnVars, gate, lockOwner, execVars, reaperVars>>

\* now := time.Now(); sleeptime := period.DurationToStart(now)
CheckPeriod ==
    /\ Running /\ mpc = "period"
    /\ IF period.set
       THEN \E now \in NowTimes :
              /\ clock' = now
              /\ sleeptime' = DurationToStart(period, now)
              /\ mpc' = IF DurationToStart(period, now) > 0
                        THEN "winsleep" ELSE "useLock"
       ELSE mpc' = "useLock" /\ UNCHANGED timeVars
    /\ UNCHANGED <<cfgVars, proc, fault, sigVars, stop, wg, ueVars, obsVars,
                   fnVars, gate, lockOwner, execVars, reaperVars>>

WindowSleep ==
    /\ Running /\ mpc = "winsleep"
    /\ clock' = (clock + sleeptime) % Day
    /\ mpc' = "useLock"
    /\ UNCHANGED <<cfgVars, proc, fault, sigVars, stop, wg, ueVars, obsVars,
                   sleeptime, fnVars, gate, lockOwner, execVars, reaperVars>>

\* ------------------------------------------------------ rebooter.reboot
\* useLock(): an error ends the daemon, false goes straight to
\* rebootAndSleep, true sets the lock up
Decide ==
    /\ Running /\ mpc = "useLock"
    /\ \E p \in ProbeOutcomes :
         /\ gate' = useLock(strategy, p)
         /\ IF useLock(strategy, p).err # "nil"
            THEN Exit("exit1") /\ UNCHANGED <<mpc, caller>>
            ELSE IF useLock(strategy, p).use
            THEN mpc' = "setupLock" /\ UNCHANGED <<proc, caller>>
            ELSE mpc' = "broadcast" /\ caller' = "reboot" /\ UNCHANGED proc
    /\ UNCHANGED <<cfgVars, fault, sigVars, stop, wg, ueVars, obsVars, timeVars,
                   fnVars, lockOwner, acqVars, eReleaseCalls, lines,
                   broadcasts, delays, reboots, rebootAt, reaperVars>>

SetupLock ==
    /\ Running /\ mpc = "setupLock"
    /\ \E ok \in BOOLEAN :
         IF ok
         THEN mpc' = "unlock" /\ UNCHANGED <<proc, fault>>
         ELSE fault' = "setup" /\ Exit("exit1") /\ UNCHANGED mpc
    /\ UNCHANGED <<cfgVars, sigVars, stop, wg, ueVars, obsVars, timeVars,
                   fnVars, gate, lockOwner, execVars, reaperVars>>

\* unlockIfHeld(lck) of reboot(): the call of lck.Unlock() ...
BeginUnlock ==
    /\ Running /\ mpc = "unlock"
    /\ eReleaseCalls' = eReleaseCalls + 1
    /\ mpc' = "unlocking"
    /\ UNCHANGED <<cfgVars, proc, fault, sigVars, stop, wg, ueVars, obsVars,
                   timeVars, fnVars, gate, lockOwner, acqVars, rasVars,
                   reaperVars>>

\* ... and its return: an error other than ErrNotExist ends the daemon,
\* otherwise lockAndReboot starts with a fresh interval
EndUnlock ==
    /\ Running /\ mpc = "unlocking"
    /\ \E o \in ReleaseOutcomes(lockOwner) :
         /\ lockOwner' = o.owner
         /\ IF unlockIfHeld(o.res)
            THEN /\ eInterval' = initialInterval
                 /\ mpc' = "lock"
                 /\ UNCHANGED <<proc, fault>>
            ELSE /\ fault' = "release"
                 /\ Exit("exit1")
                 /\ UNCHANGED <<mpc, eInterval>>
    /\ UNCHANGED <<cfgVars, sigVars, stop, wg, ueVars, obsVars, timeVars,
                   fnVars, gate, acquireCalls, acquireFails, eSleeps,
                   eReleaseCalls, rasVars, reaperVars>>

\* ------------------------------------------------ rebooter.lockAndReboot
\* the call of lck.Lock() ...
BeginLock ==
    /\ Running /\ mpc = "lock"
    /\ acquireCalls' = acquireCalls + 1
    /\ mpc' = "locking"
    /\ UNCHANGED <<cfgVars, proc, fault, sigVars, stop, wg, ueVars, obsVars,
                   timeVars, fnVars, gate, lockOwner, eInterval, acquireFails,
                   eSleeps, eReleaseCalls, rasVars, reaperVars>>

EndLock_NoSleep ==
    /\ Running /\ mpc = "locking"
    /\ \E o \in AcquireOutcomes(lockOwner) :
         /\ o.res = "err" => acquireFails < MaxFail
         /\ lockOwner' = o.owner
         /\ IF o.res \notin {"ok", "exist"}
            THEN /\ eInterval' = expBackoff(eInterval)
                 /\ acquireFails' = acquireFails + 1
                 /\ mpc' = "lock"
                 /\ UNCHANGED caller
            ELSE /\ caller' = "lockAndReboot"
                 /\ mpc' = "broadcast"
                 /\ UNCHANGED <<eInterval, acquireFails>>
    /\ UNCHANGED <<cfgVars, proc, fault, sigVars, stop, wg, ueVars, obsVars,
                   timeVars, fnVars, gate, acquireCalls, eSleeps,
                   eReleaseCalls, lines, broadcasts, delays, reboots, rebootAt,
                   reaperVars>>

\* ... and its return: nil and ErrExist go on to rebootAndSleep, any other
\* error doubles the interval and sleeps
EndLock ==
    /\ Running /\ mpc = "locking"
    /\ \E o \in AcquireOutcomes(lockOwner) :
         /\ o.res = "err" => acquireFails < MaxFail
         /\ lockOwner' = o.owner
         /\ IF o.res \notin {"ok", "exist"}
            THEN /\ eInterval' = expBackoff(eInterval)
                 /\ acquireFails' = acquireFails + 1
                 /\ mpc' = "backoff"
                 /\ UNCHANGED caller
            ELSE /\ caller' = "lockAndReboot"
                 /\ mpc' = "broadcast"
                 /\ UNCHANGED <<eInterval, acquireFails>>
    /\ UNCHANGED <<cfgVars, proc, fault, sigVars, stop, wg, ueVars, obsVars,
                   timeVars, fnVars, gate, acquireCalls, eSleeps,
                   eReleaseCalls, lines, broadcasts, delays, reboots, rebootAt,
                   reaperVars>>

\* time.Sleep(interval); continue
BackoffSleep ==
    /\ Running /\ mpc = "backoff"
    /\ clock' = (clock + eInterval) % Day
    /\ eSleeps' = eSleeps + 1
    /\ mpc' = "lock"
    /\ UNCHANGED <<cfgVars, proc, fault, sigVars, stop, wg, ueVars, obsVars,
                   sleeptime, fnVars, gate, lockOwner, eInterval,
                   acquireCalls, acquireFails, eReleaseCalls, rasVars,
                   reaperVars>>

\* -------------------------------------------------------- rebootAndSleep
Broadcast_AlwaysDelays ==
    /\ Running /\ mpc = "broadcast"
    /\ \E n \in 0..MaxLines : lines' = n
    /\ mpc' = "delay"
    /\ broadcasts' = broadcasts + 1
    /\ UNCHANGED <<cfgVars, proc, fault, sigVars, stop, wg, ueVars, obsVars,
                   timeVars, fnVars, gate, lockOwner, acqVars, eReleaseCalls,
                   caller, delays, reboots, rebootAt, reaperVars>>

\* lines := broadcast(...)
Broadcast ==
    /\ Running /\ mpc = "broadcast"
    /\ \E n \in 0..MaxLines :
         /\ lines' = n
         /\ mpc' = IF 0 # n THEN "delay" ELSE "request"
    /\ broadcasts' = broadcasts + 1
    /\ UNCHANGED <<cfgVars, proc, fault, sigVars, stop, wg, ueVars, obsVars,
                   timeVars, fnVars, gate, lockOwner, acqVars, eReleaseCalls,
                   caller, delays, reboots, rebootAt, reaperVars>>

\* time.Sleep(loginsRebootDelay)
Delay ==
    /\ Running /\ mpc = "delay"
    /\ clock' = (clock + loginsRebootDelay) % Day
    /\ delays' = delays + 1
    /\ mpc' = "request"
    /\ UNCHANGED <<cfgVars, proc, fault, sigVars, stop, wg, ueVars, obsVars,
                   sleeptime, fnVars, gate, lockOwner, acqVars, eReleaseCalls,
                   caller, lines, broadcasts, reboots, rebootAt, reaperVars>>

\* lgn.Reboot(false)
RequestReboot ==
    /\ Running /\ mpc = "request"
    /\ reboots' = reboots + 1
    /\ rebootAt' = clock
    /\ mpc' = "sleep"
    /\ UNCHANGED <<cfgVars, proc, fault, sigVars, stop, wg, ueVars, obsVars,
                   timeVars, fnVars, gate, lockOwner, acqVars, eReleaseCalls,
                   caller, lines, broadcasts, delays, reaperVars>>

RebootSleep_ExitZero ==
    /\ Running /\ mpc = "sleep"
    /\ clock' = (clock + rebootWait) % Day
    /\ IF caller = "lockAndReboot"
       THEN mpc' = "broadcast" /\ caller' = "reboot" /\ UNCHANGED proc
       ELSE Exit("exit0") /\ UNCHANGED <<mpc, caller>>
    /\ UNCHANGED <<cfgVars, fault, sigVars, stop, wg, ueVars, obsVars,
                   sleeptime, fnVars, gate, lockOwner, acqVars, eReleaseCalls,
                   lines, broadcasts, delays, reboots, rebootAt, reaperVars>>

\* the week-long sleep elapses with the process still alive: rebootAndSleep
\* returns, to lockAndReboot (which returns to reboot(), which calls
\* rebootAndSleep again) or to reboot() (which reports and returns 1)
RebootSleep ==
    /\ Running /\ mpc = "sleep"
    /\ clock' = (clock + rebootWait) % Day
    /\ IF caller = "lockAndReboot"
       THEN mpc' = "broadcast" /\ caller' = "reboot" /\ UNCHANGED proc
       ELSE Exit("exit1") /\ UNCHANGED <<mpc, caller>>
    /\ UNCHANGED <<cfgVars, fault, sigVars, stop, wg, ueVars, obsVars,
                   sleeptime, fnVars, gate, lockOwner, acqVars, eReleaseCalls,
                   lines, broadcasts, delays, reboots, rebootAt, reaperVars>>

\* the session manager carries the request out: the machine goes down
SystemReboots ==
    /\ Running /\ reboots > 0
    /\ proc' = "rebooted"
    /\ UNCHANGED <<cfgVars, mpc, fault, sigVars, stop, wg, ueVars, obsVars,
                   timeVars, fnVars, gate, lockOwner, execVars, reaperVars>>

\* ------------------------------------------------------- unlockHeldLocks
\* return, with the deferred wg.Done(); the goroutine's locals end with it
ReaperReturn ==
    /\ rpc' = "done"
    /\ wg' = wg - 1
    /\ rInterval' = 0
    /\ rTimerLive' = FALSE
    /\ rSeen' = "none"

\* case <-stop
ReaperStop ==
    /\ Running /\ rpc = "select"
    /\ stop
    /\ ReaperReturn
    /\ UNCHANGED <<cfgVars, mpc, proc, fault, sigVars, stop, ueVars, obsVars,
                   timeVars, fnVars, gate, lockOwner, execVars,
                   rReleaseCalls, rReleaseFails, rLast>>

\* case <-time.After(interval): a wait that found stop closed on entry takes
\* the stop case, the timer being at least initialInterval away
ReaperTimer ==
    /\ Running /\ rpc = "select"
    /\ rTimerLive
    /\ rpc' = "probe"
    /\ UNCHANGED <<cfgVars, mpc, proc, fault, sigVars, stop, wg, ueVars,
                   obsVars, timeVars, fnVars, gate, lockOwner, execVars,
                   rInterval, rTimerLive, rSeen, rReleaseCalls, rReleaseFails,
                   rLast>>

ReaperProbe_ActiveDefers ==
    /\ Running /\ rpc = "probe"
    /\ \E p \in ProbeOutcomes :
         IF etcdActive(p).err
         THEN rSeen' = "err" /\ rpc' = "backoff"
         ELSE IF ~etcdActive(p).active
         THEN rSeen' = "inactive" /\ rpc' = "client"
         ELSE rSeen' = "active" /\ rpc' = "backoff"
    /\ UNCHANGED <<cfgVars, mpc, proc, fault, sigVars, stop, wg, ueVars,
                   obsVars, timeVars, fnVars, gate, lockOwner, execVars,
                   rInterval, rTimerLive, rReleaseCalls, rReleaseFails, rLast>>

\* etcdActive(): an error defers; inactive services make it try the remote
\* cluster first; active services go straight on to the lock
ReaperProbe ==
    /\ Running /\ rpc = "probe"
    /\ \E p \in ProbeOutcomes :
         IF etcdActive(p).err
         THEN rSeen' = "err" /\ rpc' = "backoff"
         ELSE IF ~etcdActive(p).active
         THEN rSeen' = "inactive" /\ rpc' = "client"
         ELSE rSeen' = "active" /\ rpc' = "setup"
    /\ UNCHANGED <<cfgVars, mpc, proc, fault, sigVars, stop, wg, ueVars,
                   obsVars, timeVars, fnVars, gate, lockOwner, execVars,
                   rInterval, rTimerLive, rReleaseCalls, rReleaseFails, rLast>>

\* getClient(), then setupLock(): an error of either defers
ReaperCall(at, next) ==
    /\ Running /\ rpc = at
    /\ \E ok \in BOOLEAN : rpc' = IF ok THEN next ELSE "backoff"
    /\ UNCHANGED <<cfgVars, mpc, proc, fault, sigVars, stop, wg, ueVars,
                   obsVars, timeVars, fnVars, gate, lockOwner, execVars,
                   rInterval, rTimerLive, rSeen, rReleaseCalls, rReleaseFails,
                   rLast>>

ReaperClient_GivesUp ==
    /\ Running /\ rpc = "client"
    /\ \E ok \in BOOLEAN :
         IF ok
         THEN rpc' = "setup" /\ UNCHANGED <<wg, rInterval, rTimerLive, rSeen>>
         ELSE ReaperReturn
    /\ UNCHANGED <<cfgVars, mpc, proc, fault, sigVars, stop, ueVars, obsVars,
                   timeVars, fnVars, gate, lockOwner, execVars,
                   rReleaseCalls, rReleaseFails, rLast>>

ReaperClient == ReaperCall("client", "setup")

ReaperSetup == ReaperCall("setup", "unlock")

\* unlockIfHeld(lck): the call of lck.Unlock() ...
ReaperBeginUnlock ==
    /\ Running /\ rpc = "unlock"
    /\ rReleaseCalls' = rReleaseCalls + 1
    /\ rpc' = "unlocking"
    /\ UNCHANGED <<cfgVars, mpc, proc, fault, sigVars, stop, wg, ueVars,
                   obsVars, timeVars, fnVars, gate, lockOwner, execVars,
                   rInterval, rTimerLive, rSeen, rReleaseFails, rLast>>

\* ... and its return: nil ends the task, an error defers
ReaperEndUnlock ==
    /\ Running /\ rpc = "unlocking"
    /\ \E o \in ReleaseOutcomes(lockOwner) :
         /\ o.res = "err" => rReleaseFails < MaxReleaseFail
         /\ lockOwner' = o.owner
         /\ rLast' = o.res
         /\ IF unlockIfHeld(o.res)
            THEN ReaperReturn /\ UNCHANGED rReleaseFails
            ELSE /\ rpc' = "backoff"
                 /\ rReleaseFails' = rReleaseFails + 1
                 /\ UNCHANGED <<wg, rInterval, rTimerLive, rSeen>>
    /\ UNCHANGED <<cfgVars, mpc, proc, fault, sigVars, stop, ueVars, obsVars,
                   timeVars, fnVars, gate, execVars, rReleaseCalls>>

ReaperBackoff_TimerFirst ==
    /\ Running /\ rpc = "backoff"
    /\ rInterval' = expBackoff(rInterval)
    /\ rpc' = "select"
    /\ rTimerLive' = TRUE
    /\ rSeen' = "none"
    /\ UNCHANGED <<cfgVars, mpc, proc, fault, sigVars, stop, wg, ueVars,
                   obsVars, timeVars, fnVars, gate, lockOwner, execVars,
                   rReleaseCalls, rReleaseFails, rLast>>

\* interval = expBackoff(interval), then the next wait
ReaperBackoff ==
    /\ Running /\ rpc = "backoff"
    /\ rInterval' = expBackoff(rInterval)
    /\ rpc' = "select"
    /\ rTimerLive' = ~stop
    /\ rSeen' = "none"
    /\ UNCHANGED <<cfgVars, mpc, proc, fault, sigVars, stop, wg, ueVars,
                   obsVars, timeVars, fnVars, gate, lockOwner, execVars,
                   rReleaseCalls, rReleaseFails, rLast>>

\* --------------------------------------------------------- update engine
\* ue.RebootNeededSignal(ch, stop): while runDaemon is subscribed and has not
\* yet got past its wait, the update engine moves to another operation and
\* the listener puts the status snapshot on ch
Subscribed == mpc \in {"status", "wait"} /\ ~stop

StatusChange ==
    /\ Running /\ Subscribed
    /\ ch = <<>>
    /\ \E s \in Statuses \ {ueStatus} :
         /\ ueStatus' = s
         /\ ch' = <<s>>
    /\ UNCHANGED <<cfgVars, mpc, proc, fault, sigVars, stop, wg, obsVars,
                   timeVars, fnVars, gate, lockOwner, execVars, reaperVars>>

\* --------------------------------------------------------------- signals
\* SIGINT or SIGTERM arrives once signal.Notify has run
SignalArrives ==
    /\ Running /\ handler
    /\ ~shutdown
    /\ shutdown' = TRUE
    /\ UNCHANGED <<cfgVars, mpc, proc, fault, handler, stop, wg, ueVars,
                   obsVars, timeVars, fnVars, gate, lockOwner, execVars,
                   reaperVars>>

SignalExit_AfterJoin ==
    /\ Running /\ shutdown
    /\ rpc \in {"off", "done"}
    /\ Exit("exit0")
    /\ UNCHANGED <<cfgVars, mpc, fault, sigVars, stop, wg, ueVars, obsVars,
                   timeVars, fnVars, gate, lockOwner, execVars, reaperVars>>

\* the goroutine of runDaemon: <-shutdown, then os.Exit(0)
SignalExit ==
    /\ Running /\ shutdown
    /\ Exit("exit0")
    /\ UNCHANGED <<cfgVars, mpc, fault, sigVars, stop, wg, ueVars, obsVars,
                   timeVars, fnVars, gate, lockOwner, execVars, reaperVars>>

\* -------------------------------------------------------- specifications
Main ==
    \/ CheckStrategy \/ CheckWindow \/ InstallHandler
    \/ ConnectUpdateEngine \/ ConnectLogin
    \/ StartReaper \/ StartListener \/ GetStatus \/ WaitStatus
    \/ CloseStop \/ WgWait \/ CheckPeriod \/ WindowSleep
    \/ Decide \/ SetupLock \/ BeginUnlock \/ EndUnlock
    \/ BeginLock \/ EndLock \/ BackoffSleep
    \/ Broadcast \/ Delay \/ RequestReboot \/ RebootSleep

Reaper ==
    \/ ReaperStop \/ ReaperTimer \/ ReaperProbe \/ ReaperClient
    \/ ReaperSetup \/ ReaperBeginUnlock \/ ReaperEndUnlock \/ ReaperBackoff

Next ==
    \/ Main
    \/ Reaper
    \/ StatusChange
    \/ SignalArrives
    \/ SignalExit
    \/ SystemReboots

Spec == Init /\ [][Next]_vars

\* the goroutines are scheduled fairly, every collaborator call returns and
\* every sleep ends
FairSpec ==
    /\ Spec
    /\ WF_vars(Main)
    /\ WF_vars(Reaper)
    /\ WF_vars(SignalExit)

\* runDaemon from the start of the reaper to the return of its wg.Wait(),
\* with the reaper, the update engine and the signals: the daemon has read
\* a strategy other than off and no reboot window, has installed the signal
\* handler and has connected to both collaborators
JoinInit ==
    /\ strategy \in {StrategyReboot, StrategyEtcdLock, StrategyBestEffort}
    /\ period = NoPeriod
    /\ mpc = "reaper"
    /\ proc = "running"
    /\ fault = "none"
    /\ handler = TRUE
    /\ shutdown = FALSE
    /\ stop = FALSE
    /\ wg = 0
    /\ ueStatus \in Statuses
    /\ ch = <<>>
    /\ result = "none"
    /\ rcvd = "none"
    /\ clock = 0
    /\ sleeptime = 0
    /\ probe = [err |-> FALSE, units |-> <<"inactive", "inactive">>]
    /\ gate = [use |-> FALSE, err |-> "none"]
    /\ seen = {}
    /\ gateCalls = 0
    /\ lockOwner \in {"free", "stale"}
    /\ eInterval = 0
    /\ acquireCalls = 0
    /\ acquireFails = 0
    /\ eSleeps = 0
    /\ eReleaseCalls = 0
    /\ caller = "none"
    /\ lines = 0
    /\ broadcasts = 0
    /\ delays = 0
    /\ reboots = 0
    /\ rebootAt = 0
    /\ rpc = "off"
    /\ rInterval = 0
    /\ rTimerLive = FALSE
    /\ rSeen = "none"
    /\ rReleaseCalls = 0
    /\ rReleaseFails = 0
    /\ rLast = "none"
    /\ BackoffIdle

ToJoin ==
    \/ StartReaper \/ StartListener \/ GetStatus \/ WaitStatus
    \/ CloseStop \/ WgWait

JoinNext ==
    \/ ToJoin
    \/ Reaper
    \/ StatusChange
    \/ SignalArrives
    \/ SignalExit

\* fair as FairSpec is
JoinSpec ==
    /\ JoinInit /\ [][JoinNext]_vars
    /\ WF_vars(ToJoin)
    /\ WF_vars(Reaper)
    /\ WF_vars(SignalExit)

\* the Lock Gate alone: useLock() called again and again, each call with a
\* probe outcome of its own
GateCall ==
    /\ gateCalls < MaxGateCalls
    /\ \E p \in ProbeOutcomes :
         /\ probe' = p
         /\ gate' = useLock(strategy, p)
         /\ seen' = seen \cup {<<p, useLock(strategy, p)>>}
    /\ gateCalls' = gateCalls + 1
    /\ UNCHANGED <<cfgVars, mpc, proc, fault, sigVars, stop, wg, ueVars,
                   obsVars, timeVars, backoffVars, lockOwner, execVars,
                   reaperVars>>

GateInit ==
    /\ strategy \in EnvStrategies
    /\ ueStatus = UpdateStatusUpdatedNeedReboot
    /\ lockOwner = "free"
    /\ BackoffIdle
    /\ InitRest

GateSpec == GateInit /\ [][GateCall]_vars

\* expBackoff alone: one call, on any duration the signed DurBits-bit range
\* holds
BackoffCall ==
    /\ bNext = <<>>
    /\ bNext' = <<expBackoff(bInterval)>>
    /\ UNCHANGED <<cfgVars, mpc, proc, fault, sigVars, stop, wg, ueVars,
                   obsVars, timeVars, gateVars, bInterval, gate, lockOwner,
                   execVars, reaperVars>>

BackoffInit ==
    /\ strategy = ""
    /\ ueStatus = UpdateStatusUpdatedNeedReboot
    /\ lockOwner = "free"
    /\ bInterval \in Durations
    /\ bNext = <<>>
    /\ InitRest

BackoffSpec == BackoffInit /\ [][BackoffCall]_vars

\* ------------------------------------------------------------ properties
\* runDaemon stands in rebooter.reboot or in what it calls
InExecutor ==
    mpc \in {"useLock", "setupLock", "unlock", "unlocking", "lock", "locking",
             "backoff", "broadcast", "delay", "request", "sleep"}

\* the reaper was never started, or has returned and called wg.Done()
ReaperTerminated == rpc \in {"off", "done"} /\ wg = 0

\* the status runDaemon has observed is "reboot needed"
NeedRebootObserved ==
    \/ result = UpdateStatusUpdatedNeedReboot
    \/ rcvd = UpdateStatusUpdatedNeedReboot

\* C1: whenever the executor has begun (so before and during each of its
\* lock operations) stop is closed and the reaper has terminated; the reaper
\* and the executor are never both inside a lock call; the reaper is not in
\* or about to make a release() once the executor has called acquire()
C1_ReaperEndsBeforeExecutor ==
    /\ InExecutor => (stop /\ ReaperTerminated)
    /\ ~(mpc \in {"unlocking", "locking"} /\ rpc = "unlocking")
    /\ acquireCalls > 0 => rpc \notin {"unlock", "unlocking"}

C1_Witness ==
    /\ mpc = "locking"
    /\ rpc = "done"
    /\ rReleaseCalls > 0

\* C2: the process never exits (status 0 or 1) while it holds the lock
C2_NoLockHeldAtExit == proc \in {"exit0", "exit1"} => lockOwner # "proc"

C4_EventuallyReboots ==
    (/\ mpc = "stop"
     /\ NeedRebootObserved
     /\ strategy \in {StrategyReboot, StrategyEtcdLock, StrategyBestEffort})
        ~> (reboots > 0 \/ shutdown \/ gate.err = "probe" \/ fault = "setup")

\* C5: with a window configured, every reboot request is sent at a time of
\* day inside the window
C5_RebootInsideWindow ==
    (period.set /\ reboots > 0) => InWindow(period, rebootAt)

\* C6: under strategy reboot the reaper is never started, the join does not
\* block, and no acquire() or release() is ever called
C6_RebootStrategyTouchesNoLock ==
    strategy = StrategyReboot =>
        /\ rpc = "off" /\ wg = 0
        /\ (Running /\ mpc = "join") => ENABLED WgWait
        /\ acquireCalls = 0 /\ eReleaseCalls = 0 /\ rReleaseCalls = 0
        /\ mpc \notin {"setupLock", "unlock", "unlocking", "lock", "locking",
                       "backoff"}

C6_Witness == strategy = StrategyReboot /\ reboots > 0 /\ gate.err = "nil"

\* C7: every useLock() result is the one the decision table gives for the
\* strategy and the probe outcome, and equal inputs gave equal results
C7_UseLockTable ==
    gateCalls > 0 =>
        /\ strategy = StrategyReboot => gate = [use |-> FALSE, err |-> "nil"]
        /\ strategy = StrategyEtcdLock => gate = [use |-> TRUE, err |-> "nil"]
        /\ (strategy = StrategyBestEffort /\ probe.err) => gate.err = "probe"
        /\ (/\ strategy = StrategyBestEffort /\ ~probe.err
            /\ \E i \in 1..Len(probe.units) : probe.units[i] = "active")
               => gate = [use |-> TRUE, err |-> "nil"]
        /\ (/\ strategy = StrategyBestEffort /\ ~probe.err
            /\ \A i \in 1..Len(probe.units) : probe.units[i] = "inactive")
               => gate = [use |-> FALSE, err |-> "nil"]
        /\ strategy \notin {StrategyReboot, StrategyEtcdLock, StrategyBestEffort}
               => gate.err = "unknown"
        /\ \A a \in seen, b \in seen : a[1] = b[1] => a[2] = b[2]

C7_Witness ==
    /\ strategy = StrategyBestEffort
    /\ gateCalls = 2 /\ Cardinality(seen) = 1
    /\ gate = [use |-> TRUE, err |-> "nil"]

\* C8: acquire() is called once more than it failed, each failure is
\* followed by one backoff sleep before the next call, and once acquire()
\* has returned nil or ErrExist the executor is in the broadcast, the delay,
\* the reboot request or the sleep after it, each request preceded by its
\* broadcast
C8_AcquireRetry ==
    /\ mpc = "lock" => (acquireCalls = acquireFails /\ eSleeps = acquireFails)
    /\ mpc = "locking" => (acquireCalls = acquireFails + 1 /\ eSleeps = acquireFails)
    /\ mpc = "backoff" => (acquireCalls = acquireFails /\ eSleeps + 1 = acquireFails)
    /\ (acquireCalls > 0 /\ mpc \notin {"lock", "locking", "backoff"}) =>
          /\ acquireCalls = acquireFails + 1
          /\ eSleeps = acquireFails
          /\ mpc \in {"broadcast", "delay", "request", "sleep"}
          /\ mpc \in {"delay", "request"} => broadcasts = reboots + 1
          /\ mpc = "sleep" => (reboots >= 1 /\ broadcasts = reboots)

C8_Witness ==
    /\ acquireFails = 2 /\ acquireCalls = 3 /\ eSleeps = 2
    /\ mpc = "sleep" /\ reboots = 1 /\ broadcasts = 1

\* C9: a release() of the reaper that returns ErrNotExist or nil ends the
\* task: it is the reaper's last release() and no backoff follows it
C9_ReaperEndsOnFirstRelease ==
    /\ rLast \in {"notexist", "ok"} =>
          (rpc = "done" /\ wg = 0 /\ rReleaseCalls = rReleaseFails + 1)
    /\ rpc \in {"backoff", "unlock"} => rReleaseCalls = rReleaseFails

C9_Witness ==
    /\ rLast = "notexist" /\ rReleaseCalls = 1 /\ rpc = "done"
    /\ mpc = "wait" /\ ~stop

\* what the claim lists as the reasons of an exit with status 1
ListedExitCause ==
    \/ fault \in {"window-partial", "window-parse", "ue", "lgn", "status"}
    \/ gate.err \in {"unknown", "probe"}
    \/ (reboots > 0 /\ mpc = "sleep" /\ caller = "reboot")

\* C10 as claimed: status 0 only for strategy off or a termination signal,
\* status 1 only for one of the listed reasons
C10_ExitCodesAsClaimed ==
    /\ proc = "exit0" => (strategy = StrategyOff \/ shutdown)
    /\ proc = "exit1" => ListedExitCause

\* C10 as amended: the executor's lock setup failing and its release()
\* failing are two more reasons of an exit with status 1
C10_ExitCodes ==
    /\ proc = "exit0" => (strategy = StrategyOff \/ shutdown)
    /\ proc = "exit1" => (ListedExitCause \/ fault \in {"setup", "release"})

C10_Witness == proc = "exit1" /\ fault = "setup" /\ ~shutdown

\* C11: with strategy off the daemon exits 0 at the strategy check and has
\* done nothing else: the window configuration is not read, no handler is
\* installed, neither collaborator is connected, the reaper is not started,
\* no lock operation and no notification or reboot request is issued
C11_OffDoesNothing ==
    strategy = StrategyOff =>
        /\ proc = "exit0"
        /\ mpc = "strategy"
        /\ fault = "none"
        /\ period = NoPeriod
        /\ ~handler /\ ~shutdown /\ ~stop
        /\ rpc = "off" /\ wg = 0 /\ rReleaseCalls = 0
        /\ result = "none" /\ rcvd = "none"
        /\ gate.err = "none"
        /\ acquireCalls = 0 /\ eReleaseCalls = 0
        /\ lockOwner # "proc"
        /\ broadcasts = 0 /\ reboots = 0

C11_Witness == strategy = StrategyOff /\ proc = "exit0" /\ lockOwner = "stale"

\* C12: once signal.Notify has run, a termination signal that has arrived
\* ends the process with status 0 from whatever state runDaemon, the
\* executor and the reaper are in: the exit is enabled in every such state,
\* it moves neither thread, and after the handler is installed status 0 is
\* the signal's exit only
C12_SignalFailFast ==
    /\ [](shutdown => handler)
    /\ []((shutdown /\ Running) => ENABLED SignalExit)
    /\ []((proc = "exit0" /\ handler) => shutdown)
    /\ [][(shutdown /\ Running /\ proc' = "exit0")
            => UNCHANGED <<mpc, rpc, wg, stop, lockOwner, execVars>>]_vars

C12_Witness ==
    /\ proc = "exit0" /\ shutdown
    /\ mpc = "backoff"
    /\ rpc = "done"

\* the smaller of two durations
Min(a, b) == IF a <= b THEN a ELSE b

\* C13: a call of expBackoff on an interval up to maxInterval returns the
\* smaller of its double and maxInterval, and on an interval from
\* maxInterval up, over the whole signed range, returns maxInterval
C13_BackoffFunction ==
    bNext # <<>> =>
        /\ (bInterval <= maxInterval
              => bNext[1] = Min(2 * bInterval, maxInterval))
        /\ (bInterval >= maxInterval => bNext[1] = maxInterval)

\* C14: no acquire() or release() failure other than the sentinel outcomes
\* ends the process: the daemon never exits with status 1 on the error of a
\* release() of the executor (the one exit a lock error could cause; acquire
\* errors and the reaper's release errors lead to a backoff only)
C14_TransientNeverFatal == ~(proc = "exit1" /\ fault = "release")

\* C15 as claimed: in an iteration whose probe reported the service active
\* the reaper constructs no lock handle and calls no release()
C15_ActiveDefers ==
    rSeen = "active" => rpc \notin {"setup", "unlock", "unlocking"}

\* C15: in an iteration whose probe reported the service active the reaper
\* skips getClient() and goes on to setupLock(); once the lock handle is
\* there it calls release() in that iteration; it backs off only when
\* setupLock() or the release() failed
C15_ActiveProceeds ==
    /\ [](rSeen = "active" => rpc \in {"setup", "unlock", "unlocking", "backoff"})
    /\ [][(rpc = "probe" /\ rSeen' = "active") => rpc' = "setup"]_vars
    /\ [][(rSeen = "active" /\ rpc = "setup" /\ rpc' # "setup")
            => rpc' \in {"unlock", "backoff"}]_vars
    /\ [][(rSeen = "active" /\ rpc = "unlock" /\ rpc' # "unlock")
            => (rpc' = "unlocking" /\ rReleaseCalls' = rReleaseCalls + 1)]_vars
    /\ [][(rSeen = "active" /\ rpc = "unlocking" /\ rpc' = "backoff")
            => rLast' = "err"]_vars

C15_Witness ==
    /\ rSeen = "active" /\ rpc = "unlocking"
    /\ rReleaseCalls = 1 /\ lockOwner = "stale"

\* C16: on the locking and on the non-locking path alike the executor
\* broadcasts at most once and asks the session manager for a reboot at most
\* once, and when the post-reboot sleep elapses it exits with status 1
\* without another broadcast or reboot request
C16_NotifyAndRebootOnce ==
    /\ broadcasts <= 1
    /\ reboots <= 1
    /\ (mpc = "sleep" /\ proc = "exit1") => (broadcasts = 1 /\ reboots = 1)

\* C17: an iteration whose probe errors, or whose probe finds the service
\* inactive and whose getClient() then fails, calls no release() and does
\* not end the reaper: it goes to the backoff and from there to the next
\* wait, where the timer is live as long as stop is open; the reaper is
\* never stuck there, and it returns only on stop or after a release() that
\* succeeded or found no lock
C17_DeferralKeepsLooping ==
    /\ [](rSeen = "err" => rpc = "backoff")
    /\ [](rpc = "client" => rSeen = "inactive")
    /\ [][(rpc = "probe" /\ rSeen' = "err")
            => (rpc' = "backoff" /\ UNCHANGED <<wg, rReleaseCalls, lockOwner>>)]_vars
    /\ [][(rpc = "client" /\ rpc' \notin {"client", "setup"})
            => (rpc' = "backoff" /\ UNCHANGED <<wg, rReleaseCalls, lockOwner>>)]_vars
    /\ [][(rpc = "backoff" /\ rpc' # "backoff")
            => (rpc' = "select" /\ UNCHANGED <<wg, rReleaseCalls, lockOwner>>)]_vars
    /\ [][(rpc = "select" /\ rpc' = "done") => stop]_vars
    /\ []((rpc = "select" /\ ~stop) => rTimerLive)
    /\ []((Running /\ rpc \in {"select", "probe", "client", "backoff"})
            => ENABLED Reaper)
    /\ [](rpc = "done" => (stop \/ rLast \in {"ok", "notexist"}))

C17_Witness ==
    /\ rpc = "backoff" /\ rSeen \in {"err", "inactive"}
    /\ rInterval = maxInterval
    /\ rReleaseCalls = 0 /\ ~stop /\ wg = 1

\* lockAndReboot is in its retry loop
AcquireLoop == mpc \in {"lock", "locking", "backoff"}

\* unlockHeldLocks is in its loop
ReaperLoop ==
    rpc \in {"select", "probe", "client", "setup", "unlock", "unlocking", "backoff"}

\* C18: the interval of lockAndReboot and the interval of unlockHeldLocks
\* are separate; each is initialInterval when its loop starts, changes only
\* by expBackoff after a failed attempt of its own loop, never decreases,
\* and lies in [initialInterval, maxInterval] as long as the loop runs; no
\* step changes both
C18_BackoffState ==
    /\ [](AcquireLoop => (initialInterval <= eInterval /\ eInterval <= maxInterval))
    /\ [](ReaperLoop => (initialInterval <= rInterval /\ rInterval <= maxInterval))
    /\ [][(~AcquireLoop /\ AcquireLoop') => eInterval' = initialInterval]_vars
    /\ [][(~ReaperLoop /\ ReaperLoop') => rInterval' = initialInterval]_vars
    /\ [][(AcquireLoop /\ eInterval' # eInterval)
            => /\ mpc = "locking" /\ mpc' = "backoff"
               /\ acquireFails' = acquireFails + 1
               /\ eInterval' = expBackoff(eInterval)
               /\ eInterval' > eInterval
               /\ rInterval' = rInterval]_vars
    /\ [][(ReaperLoop /\ ReaperLoop' /\ rInterval' # rInterval)
            => /\ rpc = "backoff" /\ rpc' = "select"
               /\ rInterval' = expBackoff(rInterval)
               /\ rInterval' > rInterval
               /\ eInterval' = eInterval]_vars
    /\ [][(mpc = "locking" /\ mpc' = "backoff") => eInterval' = expBackoff(eInterval)]_vars
    /\ [][(rpc = "backoff" /\ rpc' = "select") => rInterval' = expBackoff(rInterval)]_vars

C18_Witness ==
    /\ mpc = "backoff"
    /\ acquireFails = 7
    /\ eInterval = maxInterval
    /\ rpc = "done"

\* C19: the reaper's wait selects on stop and on the timer together: a wait
\* entered with stop already closed has no live timer and ends the reaper
\* from that wait, with no further probe or release(); so once stop is
\* closed the reaper runs at most one more iteration, it is never stuck, it
\* terminates, and wg.Wait() of runDaemon returns
C19_StopSeenInWait ==
    /\ []((rpc = "select" /\ ~rTimerLive) => stop)
    /\ []((Running /\ rpc = "select" /\ stop) => ENABLED ReaperStop)
    /\ []((rpc = "select" /\ ~rTimerLive) => ~ENABLED ReaperTimer)
    /\ [][(rpc # "select" /\ rpc' = "select" /\ stop) => ~rTimerLive']_vars
    /\ [][(rpc = "select" /\ ~rTimerLive /\ rpc' # "select")
            => (rpc' = "done" /\ wg' = wg - 1 /\ UNCHANGED <<rReleaseCalls, lockOwner>>)]_vars
    /\ []((Running /\ stop /\ ReaperLoop) => ENABLED Reaper)
    /\ []((Running /\ mpc = "join" /\ ReaperTerminated) => ENABLED WgWait)
    /\ (stop ~> (~Running \/ (ReaperTerminated /\ mpc = "period")))

C19_Witness ==
    /\ rpc = "done" /\ wg = 0 /\ stop
    /\ rLast = "err" /\ lockOwner = "stale"
    /\ mpc = "period"

\* C20: every reboot request follows a broadcast of its own; between the
\* two rebootAndSleep sleeps loginsRebootDelay exactly when the broadcast
\* reached at least one terminal line, and with zero lines the request comes
\* straight after the broadcast, at the same time of day
C20_NotifyThenReboot ==
    /\ [](reboots <= broadcasts /\ delays <= broadcasts)
    /\ [](mpc \in {"delay", "request"} => broadcasts = reboots + 1)
    /\ [](mpc = "delay" => lines >= 1)
    /\ []((mpc = "request" /\ broadcasts = 1) => (delays = 1 <=> lines >= 1))
    /\ [][(mpc = "broadcast" /\ mpc' # "broadcast")
            => /\ broadcasts' = broadcasts + 1
               /\ mpc' = IF lines' >= 1 THEN "delay" ELSE "request"
               /\ UNCHANGED <<clock, delays, reboots>>]_vars
    /\ [][(mpc = "delay" /\ mpc' # "delay")
            => /\ mpc' = "request"
               /\ delays' = delays + 1
               /\ clock' = (clock + loginsRebootDelay) % Day
               /\ UNCHANGED <<lines, broadcasts, reboots>>]_vars
    /\ [][reboots' # reboots
            => /\ mpc = "request" /\ mpc' = "sleep"
               /\ reboots' = reboots + 1
               /\ rebootAt' = clock
               /\ UNCHANGED <<clock, delays, broadcasts>>]_vars

C20_Witness ==
    /\ strategy = StrategyEtcdLock /\ acquireCalls = 1
    /\ mpc = "sleep" /\ broadcasts = 1 /\ reboots = 1
    /\ lines = 0 /\ delays = 0

====
